---- MODULE Spec2Model ----
(***************************************************************************)
(* A model of prd-video/scripts/generate_srt.py: the narration segmenter   *)
(* (split_narration), the timestamp formatter (format_srt_time) and the    *)
(* cue timeline builder (generate_srt).                                     *)
(*                                                                         *)
(* A Python str is a sequence of one-character strings.  Three             *)
(* specifications share the variables:                                     *)
(*   SpecSplit  one call of split_narration, character by character;       *)
(*   Spec       one call of generate_srt, scene by scene, cue by cue;      *)
(*   SpecFmt    one call of format_srt_time on a parsed decimal.           *)
(***************************************************************************)
EXTENDS Integers, Sequences, FiniteSets

VARIABLES
    pc,             \* position of the running function
    \* ---- split_narration
    text,           \* the characters of `text` consumed by the for loop so far
    max_len,        \* the max_len argument
    segments,       \* list `segments`
    current,        \* list `current`
    current_len,    \* counter `current_len`
    emitted_by,     \* history: for each element of segments, the branch that appended it
    tail,           \* history: what the end-of-input block (lines 51-57) saw and did
    result,         \* the returned list (line 59)
    \* ---- generate_srt
    scenes,         \* data["scenes"]
    scene_i,        \* 1-based position of the for loop over scenes
    scene_segs,     \* `segments` of the scene being processed
    seg_i,          \* 1-based position of the for loop over segments
    lines,          \* list `lines`
    subtitle_index, \* counter `subtitle_index`
    cum_time,       \* accumulator `cum_time` (an exact rational)
    cues,           \* history: one record per cue appended to lines
    clock_log,      \* history: per processed scene, the clock before and after
    srt,            \* the returned string (line 95)
    \* ---- format_srt_time
    seconds,        \* the argument, as the decimal literal it was parsed from
    stamp           \* the returned string

splitVars == <<text, max_len, segments, current, current_len, emitted_by, tail, result>>
genVars == <<scenes, scene_i, scene_segs, seg_i, lines, subtitle_index, cum_time,
             cues, clock_log, srt>>
fmtVars == <<seconds, stamp>>
vars == <<pc, splitVars, genVars, fmtVars>>

-----------------------------------------------------------------------------
(* Bounds of the model. *)

\* longest `text` scanned in SpecSplit
MaxText == 10
\* largest max_len argument tried in SpecSplit
MaxMaxLen == 6
\* most scenes in data["scenes"] in Spec
MaxScenes == 2

\* the characters narrations are drawn from in SpecSplit:
\* a letter, a delimiter, a whitespace character
Alphabet == {"a", ",", " "}

-----------------------------------------------------------------------------
(* Strings. *)

\* line 28; the full-width marks are written by code point
delimiters ==
    {"U+3002", "U+FF0C", "U+FF1B", "U+FF01", "U+FF1F", "U+3001",
     ".", ",", ";", "!", "?"}

\* the characters str.strip() removes (str.isspace)
whitespace == {" ", "\t", "\n", "\r", "\f", "U+000B", "U+3000"}

RECURSIVE lstrip(_)
lstrip(s) ==
    IF s = <<>> THEN <<>>
    ELSE IF Head(s) \in whitespace THEN lstrip(Tail(s)) ELSE s

RECURSIVE rstrip(_)
rstrip(s) ==
    IF s = <<>> THEN <<>>
    ELSE IF s[Len(s)] \in whitespace THEN rstrip(SubSeq(s, 1, Len(s) - 1)) ELSE s

\* str.strip()
strip(s) == rstrip(lstrip(s))

-----------------------------------------------------------------------------
(* split_narration, lines 26-59. *)

\* the floor of lines 37 and 54
MinSegLen == 5

\* lines 38-42 and 44-48: close the buffer as a segment
CloseSegment(segs, cur) ==
    LET seg == strip(cur)
    IN  IF seg # <<>> THEN Append(segs, seg) ELSE segs

\* line 37
DelimiterSplit(ch, len) == ch \in delimiters /\ len >= MinSegLen

\* line 43
MaxLenSplit_Strict(ch, len, maxlen) == ~DelimiterSplit(ch, len) /\ len > maxlen
MaxLenSplit(ch, len, maxlen) == ~DelimiterSplit(ch, len) /\ len >= maxlen

\* lines 34-48: one iteration of the for loop, on s = [segments, current, current_len]
ScanChar(s, ch, maxlen) ==
    LET cur == Append(s.current, ch)
        len == s.current_len + 1
    IN  IF DelimiterSplit(ch, len) \/ MaxLenSplit(ch, len, maxlen)
        THEN [segments |-> CloseSegment(s.segments, cur),
              current |-> <<>>, current_len |-> 0]
        ELSE [segments |-> s.segments, current |-> cur, current_len |-> len]

\* line 54
MergeRemaining_Inclusive(segs, remaining) ==
    segs # <<>> /\ Len(remaining) <= MinSegLen
MergeRemaining(segs, remaining) == segs # <<>> /\ Len(remaining) < MinSegLen

\* lines 51-57: the remaining text
Remaining_Replace(segs, cur) ==
    LET remaining == strip(cur)
    IN  IF cur = <<>> \/ remaining = <<>> THEN segs
        ELSE IF MergeRemaining(segs, remaining)
        THEN [segs EXCEPT ![Len(segs)] = remaining]
        ELSE Append(segs, remaining)
Remaining(segs, cur) ==
    LET remaining == strip(cur)
    IN  IF cur = <<>> \/ remaining = <<>> THEN segs
        ELSE IF MergeRemaining(segs, remaining)
        THEN [segs EXCEPT ![Len(segs)] = segs[Len(segs)] \o remaining]
        ELSE Append(segs, remaining)

\* line 59
Return(segs) == SelectSeq(segs, LAMBDA s : strip(s) # <<>>)

\* lines 33-48: the whole for loop
RECURSIVE Scan(_, _, _)
Scan(s, txt, maxlen) ==
    IF txt = <<>> THEN s
    ELSE Scan(ScanChar(s, Head(txt), maxlen), Tail(txt), maxlen)

\* lines 26-59
split_narration(txt, maxlen) ==
    LET s == Scan([segments |-> <<>>, current |-> <<>>, current_len |-> 0], txt, maxlen)
    IN  Return(Remaining(s.segments, s.current))

-----------------------------------------------------------------------------
(* Numbers.  A Python float is modelled in one of two ways:                *)
(*   [kind |-> "exact", num, den]  the real number num/den, den > 0, in    *)
(*       lowest terms: arithmetic without rounding (Spec);                 *)
(*   [kind |-> "double", ms]  the IEEE-754 binary64 value nearest to the   *)
(*       decimal ms/1000, ms >= 0, as float() or json.load parses it       *)
(*       (SpecFmt).                                                        *)

RECURSIVE GCD(_, _)
GCD(a, b) == IF b = 0 THEN a ELSE GCD(b, a % b)

Abs(n) == IF n < 0 THEN -n ELSE n

Exact(n, d) ==
    LET g == GCD(Abs(n), d)
    IN  [kind |-> "exact", num |-> n \div g, den |-> d \div g]

Double(t) == [kind |-> "double", ms |-> t]

\* x + y, x * y, x <= y on exact numbers
Plus(x, y) == Exact(x.num * y.den + y.num * x.den, x.den * y.den)
Times(x, y) == Exact(x.num * y.num, x.den * y.den)
Leq(x, y) == x.num * y.den <= y.num * x.den

RECURSIVE Log2(_)
\* floor(log2(n)), n >= 1
Log2(n) == IF n <= 1 THEN 0 ELSE 1 + Log2(n \div 2)

RECURSIVE Pow2(_)
Pow2(n) == IF n = 0 THEN 1 ELSE 2 * Pow2(n - 1)

RECURSIVE Pow2Mod1000(_)
\* 2^n mod 1000
Pow2Mod1000(n) == IF n = 0 THEN 1 ELSE (2 * Pow2Mod1000(n - 1)) % 1000

RECURSIVE ScaleUp(_, _)
\* the least j with r * 2^j >= 1000, counted from j; r >= 1
ScaleUp(r, j) == IF r * Pow2(j) >= 1000 THEN j ELSE ScaleUp(r, j + 1)

\* floor(x): the integer part the code takes with //, % and int()
Floor(x) ==
    IF x.kind = "exact" THEN x.num \div x.den ELSE x.ms \div 1000

\* line 22 on a double: int((seconds % 1) * 1000).
\* Let w = ms \div 1000 and r = ms % 1000.  The double d nearest to ms/1000
\* has n fraction bits below the binary point (52 - floor(log2 d)), so
\* d % 1 = f / 2^n exactly, with f the integer nearest to r * 2^n / 1000 and
\* rem = (r * 2^n) % 1000 the part that rounding drops (rem < 500, d too
\* small) or completes (rem > 500, d too large; rem = 500 cannot occur).
\* The product (d % 1) * 1000 = r - rem / 2^n (d too small) is rounded to
\* the nearest double; it reaches r only when rem / 2^n is at most half the
\* spacing of the doubles just below r, and int() truncates it to r - 1
\* otherwise.
DoubleFracMillis(t) ==
    LET w == t \div 1000
        r == t % 1000
        n == IF w >= 1 THEN 52 - Log2(w) ELSE 52 + ScaleUp(r, 0)
        rem == (r * Pow2Mod1000(n)) % 1000
        k == Log2(r)
        half == IF r = Pow2(k) THEN n + k - 54 ELSE n + k - 53
    IN  IF r = 0 \/ rem = 0 \/ rem >= 500 THEN r
        ELSE IF half >= 0 /\ rem <= Pow2(half) THEN r
        ELSE r - 1

\* line 22: int((seconds % 1) * 1000)
FracMillis(x) ==
    IF x.kind = "exact"
    THEN ((x.num % x.den) * 1000) \div x.den
    ELSE DoubleFracMillis(x.ms)

-----------------------------------------------------------------------------
(* format_srt_time, lines 17-23. *)

Digit(d) == <<"0", "1", "2", "3", "4", "5", "6", "7", "8", "9">>[d + 1]

RECURSIVE DecimalDigits(_)
\* str(n), n >= 0
DecimalDigits(n) ==
    IF n < 10 THEN <<Digit(n)>> ELSE Append(DecimalDigits(n \div 10), Digit(n % 10))

RECURSIVE ZeroFill(_, _)
ZeroFill(s, width) == IF Len(s) >= width THEN s ELSE ZeroFill(<<"0">> \o s, width)

\* str(n), line 87
str(n) == IF n < 0 THEN <<"-">> \o DecimalDigits(-n) ELSE DecimalDigits(n)

\* f"{n:0<width>d}", line 23
ZeroPad(n, width) ==
    IF n < 0 THEN <<"-">> \o ZeroFill(DecimalDigits(-n), width - 1)
    ELSE ZeroFill(DecimalDigits(n), width)

\* lines 19-22: the four fields
TimeFields(x) ==
    LET whole == Floor(x)
    IN  [hours |-> whole \div 3600,
         minutes |-> (whole % 3600) \div 60,
         secs |-> whole % 60,
         millis |-> FracMillis(x)]

\* lines 17-23
format_srt_time(x) ==
    LET f == TimeFields(x)
    IN  ZeroPad(f.hours, 2) \o <<":">> \o ZeroPad(f.minutes, 2) \o <<":">>
        \o ZeroPad(f.secs, 2) \o <<",">> \o ZeroPad(f.millis, 3)

-----------------------------------------------------------------------------
(* Values of the variables a specification does not use. *)

NoTail == [before |-> <<>>, remaining |-> <<>>, did |-> "none"]

splitIdle ==
    /\ text = <<>> /\ max_len = 0 /\ segments = <<>> /\ current = <<>>
    /\ current_len = 0 /\ emitted_by = <<>> /\ tail = NoTail /\ result = <<>>

genIdle ==
    /\ scenes = <<>> /\ scene_i = 0 /\ scene_segs = <<>> /\ seg_i = 0
    /\ lines = <<>> /\ subtitle_index = 0 /\ cum_time = Exact(0, 1)
    /\ cues = <<>> /\ clock_log = <<>> /\ srt = <<>>

fmtIdle == seconds = Double(0) /\ stamp = <<>>

-----------------------------------------------------------------------------
(* SpecSplit: one call split_narration(text, max_len).  The characters of  *)
(* text are drawn one per iteration of the for loop.                       *)

\* lines 29-31
InitSplit ==
    /\ pc = "scan"
    /\ max_len \in 1..MaxMaxLen
    /\ text = <<>>
    /\ segments = <<>> /\ current = <<>> /\ current_len = 0
    /\ emitted_by = <<>> /\ tail = NoTail /\ result = <<>>
    /\ genIdle /\ fmtIdle

\* lines 33-48: one iteration on character ch; `branch` names the if-branch taken
Iterate(ch, branch) ==
    LET s == ScanChar([segments |-> segments, current |-> current,
                       current_len |-> current_len], ch, max_len)
    IN  /\ text' = Append(text, ch)
        /\ segments' = s.segments
        /\ current' = s.current
        /\ current_len' = s.current_len
        /\ emitted_by' = IF Len(s.segments) > Len(segments)
                         THEN Append(emitted_by, branch) ELSE emitted_by
        /\ UNCHANGED <<pc, max_len, tail, result, genVars, fmtVars>>

\* lines 37-42
SplitAtDelimiter ==
    /\ pc = "scan" /\ Len(text) < MaxText
    /\ \E ch \in Alphabet :
          /\ DelimiterSplit(ch, current_len + 1)
          /\ Iterate(ch, "delimiter")

\* lines 43-48
SplitAtMaxLen ==
    /\ pc = "scan" /\ Len(text) < MaxText
    /\ \E ch \in Alphabet :
          /\ MaxLenSplit(ch, current_len + 1, max_len)
          /\ Iterate(ch, "max_len")

\* lines 34-35 with neither branch taken
Accumulate ==
    /\ pc = "scan" /\ Len(text) < MaxText
    /\ \E ch \in Alphabet :
          /\ ~DelimiterSplit(ch, current_len + 1)
          /\ ~MaxLenSplit(ch, current_len + 1, max_len)
          /\ Iterate(ch, "none")

\* lines 50-59: the loop is exhausted
EndOfText ==
    /\ pc = "scan"
    /\ LET segs == Remaining(segments, current)
           did == IF Len(segs) > Len(segments) THEN "append"
                  ELSE IF segs # segments THEN "merge" ELSE "none"
       IN  /\ segments' = segs
           /\ tail' = [before |-> segments, remaining |-> strip(current), did |-> did]
           /\ emitted_by' = IF did = "append"
                            THEN Append(emitted_by, "remaining") ELSE emitted_by
           /\ result' = Return(segs)
    /\ pc' = "done"
    /\ UNCHANGED <<text, max_len, current, current_len, genVars, fmtVars>>

NextSplit == SplitAtDelimiter \/ SplitAtMaxLen \/ Accumulate \/ EndOfText

SpecSplit == InitSplit /\ [][NextSplit]_vars

-----------------------------------------------------------------------------
(* Properties of split_narration, checked under SpecSplit. *)

RECURSIVE Concat(_)
Concat(segs) == IF segs = <<>> THEN <<>> ELSE Head(segs) \o Concat(Tail(segs))

NonWhitespace(s) == SelectSeq(s, LAMBDA ch : ch \notin whitespace)

C6_DelimiterFloor ==
    pc = "done" =>
        \A i \in 1..(Len(result) - 1) :
            emitted_by[i] = "delimiter" => Len(result[i]) >= MinSegLen

\* C7: the returned segments, concatenated and with whitespace deleted, are
\* the non-whitespace characters of text in order; during the scan the same
\* holds of the closed segments followed by the buffer.
C7_Reconstruction ==
    /\ pc = "scan" =>
          NonWhitespace(Concat(segments) \o current) = NonWhitespace(text)
    /\ pc = "done" =>
          NonWhitespace(Concat(result)) = NonWhitespace(text)

\* a call on a text with whitespace that closed two segments and merged a
\* trailing fragment
C7_Witness ==
    /\ pc = "done" /\ tail.did = "merge" /\ Len(result) >= 2
    /\ \E i \in 1..Len(text) : text[i] \in whitespace
    /\ Len(NonWhitespace(text)) >= MinSegLen + 2

\* C10: a non-blank remainder is merged into the last segment iff a segment
\* exists and the trimmed remainder is shorter than 5; otherwise it becomes
\* the final segment; a non-blank text shorter than 5 with no prior segment
\* returns exactly its trimmed self.
C10_EndOfInput ==
    pc = "done" /\ tail.remaining # <<>> =>
        LET before == tail.before
            n == Len(before)
            merge == n >= 1 /\ Len(tail.remaining) < 5
        IN  /\ tail.did = "merge" <=> merge
            /\ tail.did = "append" <=> ~merge
            /\ merge =>
                  /\ Len(result) = n
                  /\ SubSeq(result, 1, n - 1) = SubSeq(before, 1, n - 1)
                  /\ result[n] = before[n] \o tail.remaining
            /\ ~merge => result = Append(before, tail.remaining)
            /\ (n = 0 /\ Len(text) < 5) => result = <<strip(text)>>

\* a call whose 4-character remainder was merged into an existing segment
C10_Witness ==
    /\ pc = "done" /\ tail.did = "merge"
    /\ Len(tail.remaining) = 4 /\ Len(tail.before) >= 1

-----------------------------------------------------------------------------
(* SpecFmt: one call format_srt_time(seconds) on a non-negative decimal of *)
(* millisecond granularity.                                                *)

\* the whole seconds tried; every millisecond 0..999 is tried with each
WholeSeconds == {0, 1, 2, 59, 60, 3599, 3600, 3661, 86399, 360000}

InitFmt ==
    /\ pc = "call"
    /\ seconds \in {Double(w * 1000 + r) : w \in WholeSeconds, r \in 0..999}
    /\ stamp = <<>>
    /\ splitIdle /\ genIdle

\* lines 17-23
Format ==
    /\ pc = "call"
    /\ stamp' = format_srt_time(seconds)
    /\ pc' = "done"
    /\ UNCHANGED <<seconds, splitVars, genVars>>

NextFmt == Format

SpecFmt == InitFmt /\ [][NextFmt]_vars

\* C9 (as claimed): the stamp of a non-negative time of t whole milliseconds
\* is HH:MM:SS,mmm with hours = t div 3600000 (unbounded), minutes and
\* seconds in 0..59, millis in 0..999, the four adding up to t.
C9_Timestamp ==
    pc = "done" =>
        LET t == seconds.ms
            h == t \div 3600000
            m == (t % 3600000) \div 60000
            sec == (t % 60000) \div 1000
            ms == t % 1000
        IN  stamp = ZeroPad(h, 2) \o <<":">> \o ZeroPad(m, 2) \o <<":">>
                    \o ZeroPad(sec, 2) \o <<",">> \o ZeroPad(ms, 3)

\* the three stamps the specification lists
C9_Examples ==
    pc = "done" =>
        /\ seconds.ms = 0 =>
              stamp = <<"0","0",":","0","0",":","0","0",",","0","0","0">>
        /\ seconds.ms = 3661500 =>
              stamp = <<"0","1",":","0","1",":","0","1",",","5","0","0">>
        /\ seconds.ms = 59999 =>
              stamp = <<"0","0",":","0","0",":","5","9",",","9","9","9">>

-----------------------------------------------------------------------------
(* generate_srt, lines 62-95. *)

\* line 71: the default of scene.get("durationSeconds", 5.0)
DefaultDuration == 5
\* line 77: the max_len generate_srt passes
SceneMaxLen == 20

\* dict.get(key, default), lines 64, 70, 71
Get(d, key, default) == IF key \in DOMAIN d THEN d[key] ELSE default

\* line 70
narration_of(scene) == Get(scene, "narration", <<>>)
\* line 71
duration_of(scene) == Get(scene, "durationSeconds", Exact(DefaultDuration, 1))

RECURSIVE SumLen(_)
SumLen(segs) == IF segs = <<>> THEN 0 ELSE Len(Head(segs)) + SumLen(Tail(segs))

\* line 78
total_chars(segs) == SumLen(segs)

Max(a, b) == IF a >= b THEN a ELSE b

\* lines 81-82
seg_duration_FloorRatio(duration, seg, total) ==
    Times(duration, Exact(Len(seg) \div Max(total, 1), 1))
seg_duration(duration, seg, total) ==
    Times(duration, Exact(Len(seg), Max(total, 1)))

\* lines 74 and 92: cum_time += d
Advance_Stall(t, d) == t
Advance(t, d) == Plus(t, d)

\* line 93: subtitle_index += 1
NextIndex_Skip(i) == i + 2
NextIndex(i) == i + 1

\* line 88
TimeLine(start, end) ==
    format_srt_time(start) \o <<" ", "-", "-", ">", " ">> \o format_srt_time(end)

RECURSIVE Join(_, _)
\* sep.join(ls), line 95
Join(ls, sep) ==
    IF ls = <<>> THEN <<>>
    ELSE IF Len(ls) = 1 THEN ls[1]
    ELSE ls[1] \o <<sep>> \o Join(Tail(ls), sep)

-----------------------------------------------------------------------------
(* Spec: one call generate_srt(data).                                      *)

\* the narrations tried: empty, blank, one short segment, a merged tail,
\* two and three segments of unequal length, trimmed and inner whitespace
Narrations ==
    { <<>>,
      <<" ">>,
      <<"a">>,
      <<"a", "a", "a", "a", ",", "a">>,
      <<"a", "a", "a", "a", ",", " ", "a", "a", "a", "a", "a", "a", "a">>,
      <<"a", " ", "a", "a", ",", "a", "a", "a", "a", ",", "a", "a", "a", "a", "a", "a">>,
      <<"a", "\n", "a">> }

\* the durations tried: negative, zero, a positive fraction
Durations == {Exact(-1, 1), Exact(0, 1), Exact(5, 2)}

\* scenes with both keys, without durationSeconds, without narration
SceneSet ==
    {[narration |-> n, durationSeconds |-> d] : n \in Narrations, d \in Durations}
    \cup {[narration |-> n] : n \in Narrations}
    \cup {[durationSeconds |-> d] : d \in Durations}

\* lines 64-67
Init ==
    /\ pc = "scene"
    /\ scenes \in UNION {[1..n -> SceneSet] : n \in 0..MaxScenes}
    /\ scene_i = 1
    /\ scene_segs = <<>> /\ seg_i = 0
    /\ lines = <<>>
    /\ subtitle_index = 1
    /\ cum_time = Exact(0, 1)
    /\ cues = <<>> /\ clock_log = <<>> /\ srt = <<>>
    /\ splitIdle /\ fmtIdle

\* lines 69-75: a scene whose narration is blank
SkipBlankScene ==
    /\ pc = "scene" /\ scene_i <= Len(scenes)
    /\ LET scene == scenes[scene_i]
       IN  /\ strip(narration_of(scene)) = <<>>
           /\ cum_time' = Advance(cum_time, duration_of(scene))
           /\ clock_log' = Append(clock_log, cum_time')
    /\ scene_i' = scene_i + 1
    /\ UNCHANGED <<pc, scenes, scene_segs, seg_i, lines, subtitle_index, cues, srt,
                   splitVars, fmtVars>>

\* lines 69-78: a scene with narration is split
SplitScene ==
    /\ pc = "scene" /\ scene_i <= Len(scenes)
    /\ LET scene == scenes[scene_i]
           segs == split_narration(narration_of(scene), SceneMaxLen)
       IN  /\ strip(narration_of(scene)) # <<>>
           /\ scene_segs' = segs
           /\ IF segs = <<>>
              THEN /\ pc' = "scene" /\ scene_i' = scene_i + 1 /\ seg_i' = 0
                   /\ clock_log' = Append(clock_log, cum_time)
              ELSE /\ pc' = "cue" /\ seg_i' = 1
                   /\ UNCHANGED <<scene_i, clock_log>>
    /\ UNCHANGED <<scenes, lines, subtitle_index, cum_time, cues, srt,
                   splitVars, fmtVars>>

\* lines 80-93: one iteration of the loop over the scene's segments
EmitCue ==
    /\ pc = "cue" /\ seg_i <= Len(scene_segs)
    /\ LET seg == scene_segs[seg_i]
           duration == duration_of(scenes[scene_i])
           d == seg_duration(duration, seg, total_chars(scene_segs))
           end == Plus(cum_time, d)
       IN  /\ lines' = lines \o <<str(subtitle_index), TimeLine(cum_time, end), seg, <<>> >>
           /\ cues' = Append(cues, [index |-> subtitle_index, start |-> cum_time,
                                    end |-> end, text |-> seg, scene |-> scene_i,
                                    seg_duration |-> d])
           /\ cum_time' = Advance(cum_time, d)
           /\ subtitle_index' = NextIndex(subtitle_index)
    /\ IF seg_i = Len(scene_segs)
       THEN /\ pc' = "scene" /\ scene_i' = scene_i + 1 /\ seg_i' = 0
            /\ clock_log' = Append(clock_log, cum_time')
       ELSE /\ seg_i' = seg_i + 1
            /\ UNCHANGED <<pc, scene_i, clock_log>>
    /\ UNCHANGED <<scenes, scene_segs, srt, splitVars, fmtVars>>

\* line 95
ReturnSrt ==
    /\ pc = "scene" /\ scene_i > Len(scenes)
    /\ srt' = Join(lines, "\n")
    /\ pc' = "done"
    /\ UNCHANGED <<scenes, scene_i, scene_segs, seg_i, lines, subtitle_index,
                   cum_time, cues, clock_log, splitVars, fmtVars>>

Next == SkipBlankScene \/ SplitScene \/ EmitCue \/ ReturnSrt

Spec == Init /\ [][Next]_vars

-----------------------------------------------------------------------------
(* Properties of generate_srt, checked under Spec. *)

Zero == Exact(0, 1)

\* the scenes the outer loop has finished
Processed == Len(clock_log)

\* the clock before scene i
ClockBefore(i) == IF i = 1 THEN Zero ELSE clock_log[i - 1]

RECURSIVE SumDurations(_)
\* the sum of the seg_duration fields of a sequence of cues
SumDurations(cs) ==
    IF cs = <<>> THEN Zero ELSE Plus(Head(cs).seg_duration, SumDurations(Tail(cs)))

RECURSIVE SumSceneDurations(_)
\* the sum of the durations of the first n scenes
SumSceneDurations(n) ==
    IF n = 0 THEN Zero ELSE Plus(SumSceneDurations(n - 1), duration_of(scenes[n]))

CuesOf(i) == SelectSeq(cues, LAMBDA c : c.scene = i)

Blank(i) == strip(narration_of(scenes[i])) = <<>>

\* C1: in exact arithmetic, the durations allocated to the cues of a scene
\* with narration add up to the scene's duration, every finished scene
\* (blank or not) advances the clock by its duration, and the final clock is
\* the sum of all the scenes' durations.
C1_TimeConservation ==
    /\ \A i \in 1..Processed :
          /\ clock_log[i] = Plus(ClockBefore(i), duration_of(scenes[i]))
          /\ ~Blank(i) => SumDurations(CuesOf(i)) = duration_of(scenes[i])
    /\ pc = "done" =>
          /\ Processed = Len(scenes)
          /\ cum_time = SumSceneDurations(Len(scenes))

\* a finished call on two scenes, one blank with a duration other than zero
\* and one that produced at least two cues of unequal length
C1_Witness ==
    /\ pc = "done" /\ Len(scenes) = 2
    /\ \E i \in 1..2 : Blank(i) /\ duration_of(scenes[i]) # Zero
    /\ \E i \in 1..2 :
          /\ Len(CuesOf(i)) >= 2
          /\ CuesOf(i)[1].seg_duration # CuesOf(i)[2].seg_duration
          /\ duration_of(scenes[i]) # Zero

NonNegativeDurations ==
    \A i \in 1..Len(scenes) : Leq(Zero, duration_of(scenes[i]))

\* C2: when no scene has a negative duration, every cue has start <= end,
\* starts no earlier than the previous cue ends, and within a scene starts
\* exactly where the previous cue ends.
C2_Ordered ==
    NonNegativeDurations =>
        \A k \in 1..Len(cues) :
            /\ Leq(cues[k].start, cues[k].end)
            /\ k > 1 =>
                  /\ Leq(cues[k - 1].end, cues[k].start)
                  /\ cues[k - 1].scene = cues[k].scene =>
                        cues[k - 1].end = cues[k].start

\* a finished call with non-negative durations, a gap left by a blank scene
\* before the first cue, and two cues of positive length in one scene
C2_Witness ==
    /\ pc = "done" /\ NonNegativeDurations /\ Len(cues) >= 2
    /\ cues[1].start # Zero
    /\ cues[1].scene = cues[2].scene
    /\ cues[1].start # cues[1].end /\ cues[2].start # cues[2].end

\* C3 (as claimed): every cue of a scene whose duration is zero or negative
\* has start = end.
C3_ZeroLengthCues ==
    \A k \in 1..Len(cues) :
        Leq(duration_of(scenes[cues[k].scene]), Zero) => cues[k].start = cues[k].end

RECURSIVE AllSegments(_)
\* the segments of the first n scenes, in order
AllSegments(n) ==
    IF n = 0 THEN <<>>
    ELSE AllSegments(n - 1) \o split_narration(narration_of(scenes[n]), SceneMaxLen)

\* C4: the k-th cue carries index k (in the record and on its index line),
\* the cues are, in order, the segments split_narration returns for the
\* scenes in input order, one cue each, and a blank scene has no cue.
C4_Indices ==
    /\ subtitle_index = Len(cues) + 1
    /\ Len(lines) = 4 * Len(cues)
    /\ \A k \in 1..Len(cues) :
          /\ cues[k].index = k
          /\ lines[4 * k - 3] = str(k)
          /\ cues[k].text = AllSegments(Len(scenes))[k]
          /\ ~Blank(cues[k].scene)
    /\ Len(cues) = Len(AllSegments(Processed)) + (IF pc = "cue" THEN seg_i - 1 ELSE 0)
    /\ pc = "done" => Len(cues) = Len(AllSegments(Len(scenes)))

\* a finished call whose first scene is whitespace-only and whose second
\* scene produced cues 1, 2 and 3
C4_Witness ==
    /\ pc = "done" /\ Len(scenes) = 2
    /\ narration_of(scenes[1]) # <<>> /\ Blank(1)
    /\ Len(cues) = 3 /\ cues[3].index = 3 /\ cues[1].scene = 2

RECURSIVE SplitLines(_)
\* the lines of a text: the pieces between its newline characters
SplitLines(s) ==
    IF \A i \in 1..Len(s) : s[i] # "\n" THEN <<s>>
    ELSE LET i == CHOOSE j \in 1..Len(s) :
                      s[j] = "\n" /\ \A h \in 1..(j - 1) : s[h] # "\n"
         IN  <<SubSeq(s, 1, i - 1)>> \o SplitLines(SubSeq(s, i + 1, Len(s)))

\* C8 (as claimed): the returned text is, per cue and in index order, exactly
\* four lines: the index, the time range, the segment text, a blank line.
C8_FourLineBlocks ==
    pc = "done" =>
        IF cues = <<>> THEN srt = <<>>
        ELSE LET ls == SplitLines(srt)
             IN  /\ Len(ls) = 4 * Len(cues)
                 /\ \A k \in 1..Len(cues) :
                       /\ ls[4 * k - 3] = str(cues[k].index)
                       /\ ls[4 * k - 2] = TimeLine(cues[k].start, cues[k].end)
                       /\ ls[4 * k - 1] = cues[k].text
                       /\ ls[4 * k] = <<>>

====
